---- MODULE Spec2Model ----
(***************************************************************************)
(* fatcat (src/src/main.rs): format_size, parse_args, the threshold        *)
(* computation of main, scan_directory, and the statistics / top list /    *)
(* log that main and write_log derive from the ranked list.                *)
(*                                                                         *)
(* u64 values are kept at their width.  TLC's integers are 32 bit, so a    *)
(* u64 is a tuple of seven base-1024 limbs, least significant first; the   *)
(* seventh limb holds the top four bits (6 * 10 + 4 = 64).                 *)
(***************************************************************************)
EXTENDS Integers, Sequences, FiniteSets, TLC

VARIABLES
    pc,             \* position of the modelled control flow
    fmt_in,         \* format_size: the byte counts handed to it
    fmt_out,        \* format_size: the strings returned, in call order
    args,           \* parse_args: env::args() after the program name
    arg_i,          \* parse_args: the loop index i (0-based over args)
    config,         \* parse_args: Config being built
    overflow_checks,\* build profile: TRUE = overflow checks on (debug)
    min_size_bytes, \* main: the threshold handed to scan_directory
    stream,         \* scan_directory: the items the walker yields
    pos,            \* scan_directory: index of the next walker item
    files,          \* scan_directory: Vec<FileInfo>
    file_count,     \* AtomicU64 file_count
    dir_count,      \* AtomicU64 dir_count
    stats,          \* main: the verbose statistics box
    top_list,       \* main: the displayed top list
    log             \* write_log: the written report

vars == <<pc, fmt_in, fmt_out, args, arg_i, config, overflow_checks,
          min_size_bytes, stream, pos, files, file_count, dir_count,
          stats, top_list, log>>

(***************************************************************************)
(* Bounds of the model.                                                    *)
(***************************************************************************)
MaxDelta == 1       \* format_size inputs lie within MaxDelta of a unit edge
MaxArgs == 3        \* command-line arguments after the program name
MaxEntries == 3     \* walker items per scan
MaxFiles == 3       \* length of a ranked list handed to the report
MaxTopN == 3        \* largest -t value tried

(***************************************************************************)
(* u64 arithmetic.                                                         *)
(***************************************************************************)
LimbBase == 1024
TopLimbBase == 16
NLimbs == 7

U64Zero == <<0, 0, 0, 0, 0, 0, 0>>
U64Max == <<1023, 1023, 1023, 1023, 1023, 1023, 15>>

\* the u64 of a literal below 2^31
U64Of(n) ==
    <<n % LimbBase, (n \div LimbBase) % LimbBase,
      (n \div (LimbBase * LimbBase)) % LimbBase,
      n \div (LimbBase * LimbBase * LimbBase), 0, 0, 0>>

U64Lt(a, b) ==
    \E i \in 1..NLimbs : a[i] < b[i] /\ \A j \in (i + 1)..NLimbs : a[j] = b[j]

U64Ge(a, b) == ~U64Lt(a, b)

\* a * k for a small k: the wrapped product and whether it left the range
U64MulFull(a, k) ==
    LET t1 == a[1] * k
        t2 == a[2] * k + t1 \div LimbBase
        t3 == a[3] * k + t2 \div LimbBase
        t4 == a[4] * k + t3 \div LimbBase
        t5 == a[5] * k + t4 \div LimbBase
        t6 == a[6] * k + t5 \div LimbBase
        t7 == a[7] * k + t6 \div LimbBase
    IN  [val |-> <<t1 % LimbBase, t2 % LimbBase, t3 % LimbBase, t4 % LimbBase,
                   t5 % LimbBase, t6 % LimbBase, t7 % TopLimbBase>>,
         overflow |-> t7 \div TopLimbBase # 0]

\* a + b: the wrapped sum and whether it left the range
U64AddFull(a, b) ==
    LET t1 == a[1] + b[1]
        t2 == a[2] + b[2] + t1 \div LimbBase
        t3 == a[3] + b[3] + t2 \div LimbBase
        t4 == a[4] + b[4] + t3 \div LimbBase
        t5 == a[5] + b[5] + t4 \div LimbBase
        t6 == a[6] + b[6] + t5 \div LimbBase
        t7 == a[7] + b[7] + t6 \div LimbBase
    IN  [val |-> <<t1 % LimbBase, t2 % LimbBase, t3 % LimbBase, t4 % LimbBase,
                   t5 % LimbBase, t6 % LimbBase, t7 % TopLimbBase>>,
         overflow |-> t7 \div TopLimbBase # 0]

\* a - b for a >= b
U64Sub(a, b) ==
    LET t1 == a[1] - b[1]
        t2 == a[2] - b[2] - (IF t1 < 0 THEN 1 ELSE 0)
        t3 == a[3] - b[3] - (IF t2 < 0 THEN 1 ELSE 0)
        t4 == a[4] - b[4] - (IF t3 < 0 THEN 1 ELSE 0)
        t5 == a[5] - b[5] - (IF t4 < 0 THEN 1 ELSE 0)
        t6 == a[6] - b[6] - (IF t5 < 0 THEN 1 ELSE 0)
        t7 == a[7] - b[7] - (IF t6 < 0 THEN 1 ELSE 0)
    IN  <<t1 % LimbBase, t2 % LimbBase, t3 % LimbBase, t4 % LimbBase,
          t5 % LimbBase, t6 % LimbBase, t7 % TopLimbBase>>

(***************************************************************************)
(* format_size (main.rs 28-45).  The returned String is modelled by its    *)
(* parts: the unit suffix, the integer digits before the point and the     *)
(* two digits after it (none in the "{} B" case).                          *)
(***************************************************************************)
KB == U64Of(1024)
MB == U64MulFull(KB, 1024).val
GB == U64MulFull(MB, 1024).val
TB == U64MulFull(GB, 1024).val

\* number of binary digits of n, 1 <= n < 1024
Bits(n) == CHOOSE k \in 1..10 : 2 ^ (k - 1) <= n /\ n < 2 ^ k

TopLimb(a) == CHOOSE h \in 1..NLimbs : a[h] # 0 /\ \A j \in (h + 1)..NLimbs : a[j] = 0

BitLen(a) == IF a = U64Zero THEN 0 ELSE 10 * (TopLimb(a) - 1) + Bits(a[TopLimb(a)])

\* `bytes as f64`: the nearest value with 53 significant bits, ties to even.
\* The result is an integer of at most 2^64; its seventh limb may be 16.
AsF64(a) ==
    IF BitLen(a) <= 53 THEN a
    ELSE LET unit == 2 ^ (BitLen(a) - 53)
             low == a[1] + LimbBase * a[2]
             rem == low % unit
             keptOdd == (low \div unit) % 2 = 1
             up == 2 * rem > unit \/ (2 * rem = unit /\ keptOdd)
             low2 == low - rem + (IF up THEN unit ELSE 0)
             t2 == low2 \div LimbBase
             t3 == a[3] + t2 \div LimbBase
             t4 == a[4] + t3 \div LimbBase
             t5 == a[5] + t4 \div LimbBase
             t6 == a[6] + t5 \div LimbBase
             t7 == a[7] + t6 \div LimbBase
         IN  <<low2 % LimbBase, t2 % LimbBase, t3 % LimbBase, t4 % LimbBase,
               t5 % LimbBase, t6 % LimbBase, t7>>

\* f / 1024^k, integer part (the limbs above k)
RECURSIVE Quotient(_, _)
Quotient(f, k) ==
    IF k >= NLimbs THEN 0 ELSE f[k + 1] + LimbBase * Quotient(f, k + 1)

\* 100 * (f mod 1024^j) / 1024^(j-1): carry into limb j and whether bits were lost
RECURSIVE FracCarry(_, _)
FracCarry(f, j) ==
    IF j = 0 THEN [c |-> 0, sticky |-> FALSE]
    ELSE LET lower == FracCarry(f, j - 1)
         IN  [c |-> f[j] * 100 + lower.c \div LimbBase,
              sticky |-> lower.sticky \/ lower.c % LimbBase # 0]

\* "{:.2}" of f / 1024^k in hundredths: the exact value rounded to two
\* decimals, ties to even
Hundredths(f, k) ==
    LET fc == FracCarry(f, k)
        floor100 == Quotient(f, k) * 100 + fc.c \div LimbBase
        rem == fc.c % LimbBase
        up == \/ 2 * rem > LimbBase
              \/ 2 * rem = LimbBase /\ fc.sticky
              \/ 2 * rem = LimbBase /\ ~fc.sticky /\ floor100 % 2 = 1
    IN  floor100 + (IF up THEN 1 ELSE 0)

Scaled(bytes, k, unit) ==
    LET h == Hundredths(AsF64(bytes), k)
    IN  [unit |-> unit, int |-> h \div 100, frac |-> <<(h % 100) \div 10, h % 10>>]

\* format_size with the edges compared by > instead of >=
format_size_strict(bytes) ==
    IF U64Lt(TB, bytes) THEN Scaled(bytes, 4, "TB")
    ELSE IF U64Lt(GB, bytes) THEN Scaled(bytes, 3, "GB")
    ELSE IF U64Lt(MB, bytes) THEN Scaled(bytes, 2, "MB")
    ELSE IF U64Lt(KB, bytes) THEN Scaled(bytes, 1, "KB")
    ELSE [unit |-> "B", int |-> bytes[1] + LimbBase * bytes[2], frac |-> <<>>]

format_size(bytes) ==
    IF U64Ge(bytes, TB) THEN Scaled(bytes, 4, "TB")
    ELSE IF U64Ge(bytes, GB) THEN Scaled(bytes, 3, "GB")
    ELSE IF U64Ge(bytes, MB) THEN Scaled(bytes, 2, "MB")
    ELSE IF U64Ge(bytes, KB) THEN Scaled(bytes, 1, "KB")
    ELSE [unit |-> "B", int |-> bytes[1], frac |-> <<>>]

(***************************************************************************)
(* Values left alone by a specification that does not use them.            *)
(***************************************************************************)
FormatIdle == fmt_in = <<>> /\ fmt_out = <<>>
ArgsIdle == args = <<>> /\ arg_i = 0 /\ overflow_checks = FALSE
ScanIdle == stream = <<>> /\ pos = 0
ReportIdle == stats = <<>> /\ top_list = <<>> /\ log = <<>>

formatVars == <<fmt_in, fmt_out>>
argsVars == <<args, arg_i, overflow_checks>>
scanVars == <<stream, pos>>
reportVars == <<stats, top_list, log>>

(***************************************************************************)
(* SpecFormat: format_size applied to two byte counts.                     *)
(***************************************************************************)
\* byte counts within MaxDelta of 0, of each unit edge, of 2^53 and of u64::MAX
FormatInputs ==
    UNION {{U64Of(d), U64Sub(U64Max, U64Of(d)),
            U64AddFull(<<0, 0, 0, 0, 0, 8, 0>>, U64Of(d)).val} : d \in 0..MaxDelta}
    \cup UNION {{U64Sub(e, U64Of(d)), U64AddFull(e, U64Of(d)).val} :
                    e \in {KB, MB, GB, TB}, d \in 0..MaxDelta}
    \cup {U64Of(1152), U64Of(104857600)}

FormatInit ==
    /\ pc = "format"
    /\ fmt_in \in FormatInputs \X FormatInputs
    /\ fmt_out = <<>>
    /\ ArgsIdle /\ ScanIdle /\ ReportIdle
    /\ config = <<>> /\ min_size_bytes = U64Zero
    /\ files = <<>> /\ file_count = 0 /\ dir_count = 0

\* one call of format_size on the next input
FormatCall ==
    /\ pc = "format"
    /\ Len(fmt_out) < Len(fmt_in)
    /\ fmt_out' = Append(fmt_out, format_size(fmt_in[Len(fmt_out) + 1]))
    /\ pc' = IF Len(fmt_out) + 1 = Len(fmt_in) THEN "done" ELSE "format"
    /\ UNCHANGED <<fmt_in, argsVars, scanVars, reportVars, config,
                   min_size_bytes, files, file_count, dir_count>>

FormatNext == FormatCall

UnitRank(u) ==
    CASE u = "B" -> 0 [] u = "KB" -> 1 [] u = "MB" -> 2 [] u = "GB" -> 3 [] u = "TB" -> 4

\* the unit by the magnitude of the byte count: below 1024^k iff at most 10k bits
UnitByMagnitude(bytes) ==
    IF BitLen(bytes) <= 10 THEN "B"
    ELSE IF BitLen(bytes) <= 20 THEN "KB"
    ELSE IF BitLen(bytes) <= 30 THEN "MB"
    ELSE IF BitLen(bytes) <= 40 THEN "GB"
    ELSE "TB"

\* C9: the unit format_size chooses is B below 1024, KB below 1024^2, MB below
\* 1024^3, GB below 1024^4 and TB from there on, so for x < y the unit of
\* format_size(y) is never smaller than that of format_size(x); and
\* format_size(0) is "0 B".
C9_UnitMonotone ==
    \A i \in DOMAIN fmt_out :
        /\ fmt_out[i].unit = UnitByMagnitude(fmt_in[i])
        /\ fmt_in[i] = U64Zero => fmt_out[i] = [unit |-> "B", int |-> 0, frac |-> <<>>]
        /\ \A j \in DOMAIN fmt_out :
               U64Lt(fmt_in[i], fmt_in[j])
                   => UnitRank(fmt_out[i].unit) <= UnitRank(fmt_out[j].unit)

C9_Witness ==
    /\ pc = "done"
    /\ fmt_in = <<U64Zero, TB>>
    /\ fmt_out[1] = [unit |-> "B", int |-> 0, frac |-> <<>>]
    /\ fmt_out[2] = [unit |-> "TB", int |-> 1, frac |-> <<0, 0>>]

SpecFormat == FormatInit /\ [][FormatNext]_vars

(***************************************************************************)
(* SpecArgs: parse_args (main.rs 298-364) and the threshold computation of *)
(* main (main.rs 375).  A command-line argument is the sequence of its     *)
(* characters.                                                             *)
(***************************************************************************)
DigitChars == {"0", "1", "2", "3", "4", "5", "6", "7", "8", "9"}

DigitVal(c) ==
    CASE c = "0" -> 0 [] c = "1" -> 1 [] c = "2" -> 2 [] c = "3" -> 3 [] c = "4" -> 4
      [] c = "5" -> 5 [] c = "6" -> 6 [] c = "7" -> 7 [] c = "8" -> 8 [] c = "9" -> 9

\* the digit loop of u64::from_str: checked_mul(10) then checked_add(digit)
RECURSIVE ParseDigits(_, _)
ParseDigits(s, acc) ==
    IF s = <<>> THEN [ok |-> TRUE, val |-> acc]
    ELSE IF Head(s) \notin DigitChars THEN [ok |-> FALSE, val |-> U64Zero]
    ELSE LET m == U64MulFull(acc, 10)
             a == U64AddFull(m.val, U64Of(DigitVal(Head(s))))
         IN  IF m.overflow \/ a.overflow THEN [ok |-> FALSE, val |-> U64Zero]
             ELSE ParseDigits(Tail(s), a.val)

\* str::parse::<u64>(): an optional '+', then one or more decimal digits
ParseU64(s) ==
    LET body == IF s # <<>> /\ Head(s) = "+" THEN Tail(s) ELSE s
    IN  IF body = <<>> THEN [ok |-> FALSE, val |-> U64Zero]
        ELSE ParseDigits(body, U64Zero)

HelpFlags == {<<"-", "h">>, <<"-", "-", "h", "e", "l", "p">>}
SizeFlags == {<<"-", "s">>, <<"-", "-", "s", "i", "z", "e">>}
OutputFlags == {<<"-", "o">>, <<"-", "-", "o", "u", "t", "p", "u", "t">>}
TopFlags == {<<"-", "t">>, <<"-", "-", "t", "o", "p">>}
VerboseFlags == {<<"-", "v">>, <<"-", "-", "v", "e", "r", "b", "o", "s", "e">>}
KnownFlags == HelpFlags \cup SizeFlags \cup OutputFlags \cup TopFlags \cup VerboseFlags

\* Option<String>: <<>> is None, <<v>> is Some(v)
DefaultConfig ==
    [path |-> <<".", "/">>, min_size_mb |-> U64Of(100), output |-> <<>>,
     top_n |-> U64Of(20), verbose |-> FALSE]

\* the arguments tried: every short flag, one long flag, an unknown option, a
\* path, and numbers up to and past 2^44 and 2^64
ArgChoices ==
    {<<"-", "h">>, <<"-", "s">>, <<"-", "-", "s", "i", "z", "e">>, <<"-", "o">>,
     <<"-", "t">>, <<"-", "v">>, <<"-", "x">>, <<"d">>,
     <<"1", "0", "0">>,
     <<"1", "7", "5", "9", "2", "1", "8", "6", "0", "4", "4", "4", "1", "5">>,
     <<"1", "7", "5", "9", "2", "1", "8", "6", "0", "4", "4", "4", "1", "6">>,
     <<"1", "8", "4", "4", "6", "7", "4", "4", "0", "7", "3", "7", "0", "9", "5",
       "5", "1", "6", "1", "5">>,
     <<"1", "8", "4", "4", "6", "7", "4", "4", "0", "7", "3", "7", "0", "9", "5",
       "5", "1", "6", "1", "6">>}

ArgLists == UNION {[1..n -> ArgChoices] : n \in 0..MaxArgs}

ArgsInit ==
    /\ pc = "parse"
    /\ args \in ArgLists
    /\ arg_i = 0
    /\ overflow_checks \in BOOLEAN
    /\ config = DefaultConfig
    /\ min_size_bytes = U64Zero
    /\ FormatIdle /\ ScanIdle /\ ReportIdle
    /\ files = <<>> /\ file_count = 0 /\ dir_count = 0

argsFrame == <<fmt_in, fmt_out, args, overflow_checks, stream, pos, files,
               file_count, dir_count, stats, top_list, log>>

\* args[i] of the source, whose index starts after the program name
Arg(k) == args[k + 1]

\* "-h" | "--help": print_help and exit(0)
ParseHelp ==
    /\ pc = "parse" /\ arg_i < Len(args)
    /\ Arg(arg_i) \in HelpFlags
    /\ pc' = "exit0"
    /\ UNCHANGED <<arg_i, config, min_size_bytes, argsFrame>>

\* "-s" | "--size"
ParseSize ==
    /\ pc = "parse" /\ arg_i < Len(args)
    /\ Arg(arg_i) \in SizeFlags
    /\ IF arg_i + 1 >= Len(args) \/ ~ParseU64(Arg(arg_i + 1)).ok
       THEN pc' = "exit1" /\ UNCHANGED <<arg_i, config>>
       ELSE /\ config' = [config EXCEPT !.min_size_mb = ParseU64(Arg(arg_i + 1)).val]
            /\ arg_i' = arg_i + 2
            /\ pc' = "parse"
    /\ UNCHANGED <<min_size_bytes, argsFrame>>

\* "-o" | "--output"
ParseOutput ==
    /\ pc = "parse" /\ arg_i < Len(args)
    /\ Arg(arg_i) \in OutputFlags
    /\ IF arg_i + 1 >= Len(args)
       THEN pc' = "exit1" /\ UNCHANGED <<arg_i, config>>
       ELSE /\ config' = [config EXCEPT !.output = <<Arg(arg_i + 1)>>]
            /\ arg_i' = arg_i + 2
            /\ pc' = "parse"
    /\ UNCHANGED <<min_size_bytes, argsFrame>>

\* "-t" | "--top"
ParseTop ==
    /\ pc = "parse" /\ arg_i < Len(args)
    /\ Arg(arg_i) \in TopFlags
    /\ IF arg_i + 1 >= Len(args) \/ ~ParseU64(Arg(arg_i + 1)).ok
       THEN pc' = "exit1" /\ UNCHANGED <<arg_i, config>>
       ELSE /\ config' = [config EXCEPT !.top_n = ParseU64(Arg(arg_i + 1)).val]
            /\ arg_i' = arg_i + 2
            /\ pc' = "parse"
    /\ UNCHANGED <<min_size_bytes, argsFrame>>

\* "-v" | "--verbose"
ParseVerbose ==
    /\ pc = "parse" /\ arg_i < Len(args)
    /\ Arg(arg_i) \in VerboseFlags
    /\ config' = [config EXCEPT !.verbose = TRUE]
    /\ arg_i' = arg_i + 1
    /\ pc' = "parse"
    /\ UNCHANGED <<min_size_bytes, argsFrame>>

\* arg if arg.starts_with('-'): unknown option
ParseUnknown ==
    /\ pc = "parse" /\ arg_i < Len(args)
    /\ Arg(arg_i) \notin KnownFlags
    /\ Arg(arg_i) # <<>> /\ Head(Arg(arg_i)) = "-"
    /\ pc' = "exit1"
    /\ UNCHANGED <<arg_i, config, min_size_bytes, argsFrame>>

\* any other argument is the path
ParsePath ==
    /\ pc = "parse" /\ arg_i < Len(args)
    /\ Arg(arg_i) \notin KnownFlags
    /\ ~(Arg(arg_i) # <<>> /\ Head(Arg(arg_i)) = "-")
    /\ config' = [config EXCEPT !.path = Arg(arg_i)]
    /\ arg_i' = arg_i + 1
    /\ pc' = "parse"
    /\ UNCHANGED <<min_size_bytes, argsFrame>>

\* the loop ends: Ok(config)
ParseDone ==
    /\ pc = "parse" /\ arg_i >= Len(args)
    /\ pc' = "main"
    /\ UNCHANGED <<arg_i, config, min_size_bytes, argsFrame>>

\* config.min_size_mb * 1024 * 1024: the wrapped value and whether either
\* multiplication left the u64 range
ThresholdOf(mb) ==
    LET m1 == U64MulFull(mb, 1024)
        m2 == U64MulFull(m1.val, 1024)
    IN  [val |-> m2.val, overflow |-> m1.overflow \/ m2.overflow]

\* main.rs 375: with overflow checks the multiplication panics when it
\* overflows, without them it wraps
MainThreshold ==
    /\ pc = "main"
    /\ IF overflow_checks /\ ThresholdOf(config.min_size_mb).overflow
       THEN pc' = "panic" /\ UNCHANGED min_size_bytes
       ELSE /\ min_size_bytes' = ThresholdOf(config.min_size_mb).val
            /\ pc' = "scan"
    /\ UNCHANGED <<arg_i, config, argsFrame>>

ArgsNext ==
    \/ ParseHelp \/ ParseSize \/ ParseOutput \/ ParseTop \/ ParseVerbose
    \/ ParseUnknown \/ ParsePath \/ ParseDone \/ MainThreshold

SpecArgs == ArgsInit /\ [][ArgsNext]_vars

\* mb * 2^20 computed exactly, as a shift by two limbs, when it fits in 64 bits
FitsTimesMiB(mb) == mb[7] = 0 /\ mb[6] = 0 /\ mb[5] < TopLimbBase

\* C10: for every -s value parse_args accepts, main reaches the scan with
\* min_size_bytes = min_size_mb * 1,048,576 exactly (no overflow, no abort).
C10_ThresholdExact ==
    pc \in {"scan", "panic"} =>
        /\ pc = "scan"
        /\ FitsTimesMiB(config.min_size_mb)
        /\ min_size_bytes = <<0, 0, config.min_size_mb[1], config.min_size_mb[2],
                              config.min_size_mb[3], config.min_size_mb[4],
                              config.min_size_mb[5]>>

(***************************************************************************)
(* Spec: scan_directory (main.rs 180-225), called by main with both        *)
(* counters at zero (main.rs 390-393).  The walker is the jwalk crate; the *)
(* items it yields are the input.  An entry's path is its place in the     *)
(* walk, so paths are distinct.                                            *)
(***************************************************************************)
ErrItem == [ok |-> FALSE, file_type |-> "other", meta_ok |-> FALSE, size |-> U64Zero]
DirItem == [ok |-> TRUE, file_type |-> "dir", meta_ok |-> TRUE, size |-> U64Zero]
OtherItem == [ok |-> TRUE, file_type |-> "other", meta_ok |-> TRUE, size |-> U64Zero]
FileItem(sz, m) == [ok |-> TRUE, file_type |-> "file", meta_ok |-> m, size |-> sz]

\* file sizes on disk: empty, just below and at 100 MiB, and 1 GiB
ScanSizes == {U64Zero, U64Of(104857599), U64Of(104857600), U64Of(1073741824)}
\* a file whose metadata lookup fails still has a size on disk
FileItems ==
    {FileItem(sz, TRUE) : sz \in ScanSizes} \cup {FileItem(U64Of(104857600), FALSE)}
Items == {ErrItem, DirItem, OtherItem} \cup FileItems

\* a missing root is one error; a file root is one entry; a directory root
\* comes first and is followed by what lies below it
Walks ==
    {<<ErrItem>>} \cup {<<f>> : f \in FileItems}
    \cup UNION {{<<DirItem>> \o below : below \in [1..n -> Items]} : n \in 0..MaxEntries}

\* -s values tried by the scan
ScanSizeArgs == {U64Zero, U64Of(100), U64Of(1024)}

ScanInit ==
    /\ pc = "scan"
    /\ \E mb \in ScanSizeArgs :
           /\ config = [DefaultConfig EXCEPT !.min_size_mb = mb]
           /\ min_size_bytes = ThresholdOf(mb).val
    /\ stream \in Walks
    /\ pos = 1
    /\ files = <<>>
    /\ file_count = 0
    /\ dir_count = 0
    /\ FormatIdle /\ ArgsIdle /\ ReportIdle

scanFrame == <<fmt_in, fmt_out, args, arg_i, overflow_checks, config,
               min_size_bytes, stream, stats, top_list, log>>

\* an item that is an error ends the walk
ScanSkipErr_abort ==
    /\ pc = "scan" /\ pos <= Len(stream)
    /\ ~stream[pos].ok
    /\ pos' = Len(stream) + 1
    /\ UNCHANGED <<pc, files, file_count, dir_count, scanFrame>>

\* .filter_map(|e| e.ok()): an item that is an error is dropped
ScanSkipErr ==
    /\ pc = "scan" /\ pos <= Len(stream)
    /\ ~stream[pos].ok
    /\ pos' = pos + 1
    /\ UNCHANGED <<pc, files, file_count, dir_count, scanFrame>>

\* file_type.is_dir()
ScanDir ==
    /\ pc = "scan" /\ pos <= Len(stream)
    /\ stream[pos].ok /\ stream[pos].file_type = "dir"
    /\ dir_count' = dir_count + 1
    /\ pos' = pos + 1
    /\ UNCHANGED <<pc, files, file_count, scanFrame>>

\* the file branch with the size compared by > instead of >=
ScanFile_strict ==
    /\ pc = "scan" /\ pos <= Len(stream)
    /\ stream[pos].ok /\ stream[pos].file_type = "file"
    /\ file_count' = file_count + 1
    /\ files' = IF stream[pos].meta_ok /\ U64Lt(min_size_bytes, stream[pos].size)
                THEN Append(files, [path |-> pos, size |-> stream[pos].size])
                ELSE files
    /\ pos' = pos + 1
    /\ UNCHANGED <<pc, dir_count, scanFrame>>

\* the file branch with the counter bumped only for a matching file
ScanFile_countMatched ==
    /\ pc = "scan" /\ pos <= Len(stream)
    /\ stream[pos].ok /\ stream[pos].file_type = "file"
    /\ IF stream[pos].meta_ok /\ U64Ge(stream[pos].size, min_size_bytes)
       THEN /\ files' = Append(files, [path |-> pos, size |-> stream[pos].size])
            /\ file_count' = file_count + 1
       ELSE UNCHANGED <<files, file_count>>
    /\ pos' = pos + 1
    /\ UNCHANGED <<pc, dir_count, scanFrame>>

\* the file branch with the counter bumped only for a file that is not kept
ScanFile_countUnmatched ==
    /\ pc = "scan" /\ pos <= Len(stream)
    /\ stream[pos].ok /\ stream[pos].file_type = "file"
    /\ IF stream[pos].meta_ok /\ U64Ge(stream[pos].size, min_size_bytes)
       THEN /\ files' = Append(files, [path |-> pos, size |-> stream[pos].size])
            /\ UNCHANGED file_count
       ELSE /\ file_count' = file_count + 1
            /\ UNCHANGED files
    /\ pos' = pos + 1
    /\ UNCHANGED <<pc, dir_count, scanFrame>>

\* file_type.is_file(): count it, look up the metadata, keep it if large enough
ScanFile ==
    /\ pc = "scan" /\ pos <= Len(stream)
    /\ stream[pos].ok /\ stream[pos].file_type = "file"
    /\ file_count' = file_count + 1
    /\ files' = IF stream[pos].meta_ok /\ U64Ge(stream[pos].size, min_size_bytes)
                THEN Append(files, [path |-> pos, size |-> stream[pos].size])
                ELSE files
    /\ pos' = pos + 1
    /\ UNCHANGED <<pc, dir_count, scanFrame>>

\* neither a directory nor a file: nothing happens
ScanOther ==
    /\ pc = "scan" /\ pos <= Len(stream)
    /\ stream[pos].ok /\ stream[pos].file_type \notin {"dir", "file"}
    /\ pos' = pos + 1
    /\ UNCHANGED <<pc, files, file_count, dir_count, scanFrame>>

\* the comparator with its operands the other way round
SizeCmp_ascending(a, b) ==
    IF U64Lt(a.size, b.size) THEN "Less"
    ELSE IF a.size = b.size THEN "Equal" ELSE "Greater"

\* |a, b| b.size.cmp(&a.size)
SizeCmp(a, b) ==
    IF U64Lt(b.size, a.size) THEN "Less"
    ELSE IF b.size = a.size THEN "Equal" ELSE "Greater"

Reorderings(v) ==
    {[i \in 1..Len(v) |-> v[p[i]]] : p \in Permutations(1..Len(v))}

\* the vector left as it is
SortUnstableBy_none(v) == {v}

\* sort_unstable_by: some reordering that is sorted by the comparator; which
\* one among equal elements is not specified
SortUnstableBy(v) ==
    {w \in Reorderings(v) :
        \A i, j \in 1..Len(w) : i < j => SizeCmp(w[i], w[j]) # "Greater"}

\* the walk is over: sort and return
ScanFinish ==
    /\ pc = "scan" /\ pos > Len(stream)
    /\ files' \in SortUnstableBy(files)
    /\ pc' = "scanned"
    /\ UNCHANGED <<pos, file_count, dir_count, scanFrame>>

ScanNext == ScanSkipErr \/ ScanDir \/ ScanFile \/ ScanOther \/ ScanFinish

Spec == ScanInit /\ [][ScanNext]_vars

(***************************************************************************)
(* Properties of scan_directory.                                           *)
(***************************************************************************)
RegularFile(i) == stream[i].ok /\ stream[i].file_type = "file"
Directory(i) == stream[i].ok /\ stream[i].file_type = "dir"
Failed(i) == ~stream[i].ok \/ (RegularFile(i) /\ ~stream[i].meta_ok)
RecordsOf(i) == {k \in DOMAIN files : files[k].path = i}

\* C1 as stated: every returned record has size >= t, and every regular file
\* of the walk whose size is >= t appears exactly once in the returned list.
C1_AllLargeFilesListed ==
    pc = "scanned" =>
        /\ \A k \in DOMAIN files : U64Ge(files[k].size, min_size_bytes)
        /\ \A i \in DOMAIN stream :
               RegularFile(i) /\ U64Ge(stream[i].size, min_size_bytes)
                   => Cardinality(RecordsOf(i)) = 1

\* C1 amended: every returned record has size >= t and is a regular file of
\* the walk with that size; every regular file whose metadata lookup succeeded
\* with size >= t appears exactly once; no other entry appears.
C1_FilterExact ==
    pc = "scanned" =>
        /\ \A k \in DOMAIN files :
               /\ U64Ge(files[k].size, min_size_bytes)
               /\ files[k].path \in DOMAIN stream
               /\ RegularFile(files[k].path)
               /\ files[k].size = stream[files[k].path].size
        /\ \A i \in DOMAIN stream :
               Cardinality(RecordsOf(i)) =
                   IF RegularFile(i) /\ stream[i].meta_ok
                      /\ U64Ge(stream[i].size, min_size_bytes)
                   THEN 1 ELSE 0

\* a file exactly at a non-zero threshold is kept, one a byte smaller and one
\* whose metadata lookup failed are not
C1_Witness ==
    /\ pc = "scanned"
    /\ min_size_bytes = U64Of(104857600)
    /\ stream = <<DirItem, FileItem(U64Of(104857600), TRUE),
                  FileItem(U64Of(104857599), TRUE), FileItem(U64Of(104857600), FALSE)>>
    /\ files = <<[path |-> 2, size |-> U64Of(104857600)]>>

NonIncreasing(v) == \A k \in 1..(Len(v) - 1) : U64Ge(v[k].size, v[k + 1].size)

Occurrences(v, x) == Cardinality({k \in DOMAIN v : v[k] = x})

IsPermutation(v, w) ==
    /\ Len(v) = Len(w)
    /\ \A k \in DOMAIN v : Occurrences(v, v[k]) = Occurrences(w, v[k])
    /\ \A k \in DOMAIN w : Occurrences(v, w[k]) = Occurrences(w, w[k])

Sorting == pc = "scan" /\ pc' = "scanned"

\* C2: the returned list is non-increasing in size and is a permutation of the
\* records collected during the walk.
C2_SortedPermutation ==
    [][Sorting => NonIncreasing(files') /\ IsPermutation(files', files)]_vars

\* three files met smallest first come back largest first
C2_Witness ==
    /\ pc = "scanned"
    /\ Len(files) = 3
    /\ files[1].path = 4 /\ files[2].path = 3 /\ files[3].path = 2
    /\ U64Lt(files[2].size, files[1].size) /\ U64Lt(files[3].size, files[2].size)

InsertDesc(v, x) ==
    LET n == Cardinality({k \in DOMAIN v : U64Ge(v[k].size, x.size)})
    IN  SubSeq(v, 1, n) \o <<x>> \o SubSeq(v, n + 1, Len(v))

RECURSIVE StableSortDesc(_)
StableSortDesc(v) ==
    IF v = <<>> THEN <<>>
    ELSE InsertDesc(StableSortDesc(SubSeq(v, 1, Len(v) - 1)), v[Len(v)])

C4_CountersCountEntries ==
    pc \in {"scan", "scanned"} =>
        /\ file_count = Cardinality({i \in 1..(pos - 1) : RegularFile(i)})
        /\ dir_count = Cardinality({i \in 1..(pos - 1) : Directory(i)})
        /\ pc = "scanned" /\ stream = <<DirItem>>
               => file_count = 0 /\ dir_count = 1 /\ files = <<>>

\* a small file, a file without metadata and a symlink under the root
C4_Witness ==
    /\ pc = "scanned"
    /\ min_size_bytes = U64Of(104857600)
    /\ stream = <<DirItem, FileItem(U64Of(104857599), TRUE),
                  FileItem(U64Of(104857600), FALSE), OtherItem>>
    /\ file_count = 2 /\ dir_count = 1 /\ files = <<>>

\* C5: at every point of the scan files_seen >= the number of collected
\* records, and neither counter ever decreases.
C5_CountersBoundAndGrow ==
    /\ [](file_count >= Len(files))
    /\ [][file_count' >= file_count /\ dir_count' >= dir_count]_vars

\* in the middle of a walk, with a record collected and a file left out
C5_Witness ==
    /\ pc = "scan" /\ pos <= Len(stream)
    /\ Len(files) = 1 /\ file_count = 2 /\ dir_count = 1

ReportSizes ==
    {U64Zero, U64Of(104857599), U64Of(104857600), U64Of(524287999),
     U64Of(524288000), U64Of(1073741823), U64Of(1073741824)}

RankedLists ==
    UNION {{[i \in 1..n |-> [path |-> i, size |-> sz[i]]] :
                sz \in {q \in [1..n -> ReportSizes] :
                            \A k \in 1..(n - 1) : U64Ge(q[k], q[k + 1])}} :
           n \in 0..MaxFiles}

\* -t values tried: 0..MaxTopN, the default and usize::MAX
TopChoices == {U64Of(n) : n \in 0..MaxTopN} \cup {DefaultConfig.top_n, U64Max}

ReportInit ==
    /\ pc = "report"
    /\ \E t \in TopChoices, v \in BOOLEAN, o \in {<<>>, << <<"l">> >>} :
           config = [DefaultConfig EXCEPT !.min_size_mb = U64Zero, !.top_n = t,
                                          !.verbose = v, !.output = o]
    /\ min_size_bytes = ThresholdOf(U64Zero).val
    /\ files \in RankedLists
    /\ file_count \in {Len(files), Len(files) + 1}
    /\ dir_count = 1
    /\ FormatIdle /\ ArgsIdle /\ ScanIdle /\ ReportIdle

reportFrame == <<fmt_in, fmt_out, args, arg_i, overflow_checks, config,
                 min_size_bytes, stream, pos, file_count, dir_count>>

\* files.iter().map(|f| f.size).sum(): u64 addition, left to right
RECURSIVE SumSizes(_)
SumSizes(v) ==
    IF v = <<>> THEN U64Zero
    ELSE U64AddFull(SumSizes(SubSeq(v, 1, Len(v) - 1)), v[Len(v)].size).val

\* main.rs 411-419: iter().filter(..).count()
gb_count(v) == Cardinality({k \in DOMAIN v : U64Ge(v[k].size, U64Of(1073741824))})

\* the middle bucket without its upper edge
mb_500_count_open(v) ==
    Cardinality({k \in DOMAIN v : U64Ge(v[k].size, U64Of(524288000))})

mb_500_count(v) ==
    Cardinality({k \in DOMAIN v : /\ U64Ge(v[k].size, U64Of(524288000))
                                  /\ U64Lt(v[k].size, U64Of(1073741824))})

mb_100_count(v) ==
    Cardinality({k \in DOMAIN v : /\ U64Ge(v[k].size, U64Of(104857600))
                                  /\ U64Lt(v[k].size, U64Of(524288000))})

\* write_log, main.rs 257-265
gb_files(v) == Cardinality({k \in DOMAIN v : U64Ge(v[k].size, U64Of(1073741824))})

mb_500_files(v) ==
    Cardinality({k \in DOMAIN v : /\ U64Ge(v[k].size, U64Of(524288000))
                                  /\ U64Lt(v[k].size, U64Of(1073741824))})

mb_100_files(v) ==
    Cardinality({k \in DOMAIN v : /\ U64Ge(v[k].size, U64Of(104857600))
                                  /\ U64Lt(v[k].size, U64Of(524288000))})

\* if config.verbose: the Statistics box
MainStatistics ==
    /\ pc = "report" /\ config.verbose
    /\ stats' = <<[total_dirs |-> dir_count,
                   total_size |-> format_size(SumSizes(files)),
                   gb_count |-> gb_count(files),
                   mb_500_count |-> mb_500_count(files),
                   mb_100_count |-> mb_100_count(files)]>>
    /\ pc' = "top"
    /\ UNCHANGED <<files, top_list, log, reportFrame>>

MainNoStatistics ==
    /\ pc = "report" /\ ~config.verbose
    /\ pc' = "top"
    /\ UNCHANGED <<files, stats, top_list, log, reportFrame>>

\* std::cmp::min(config.top_n, files.len())
DisplayCount(top_n, len) == IF U64Lt(top_n, U64Of(len)) THEN top_n[1] ELSE len

\* one line of a numbered list: "{i + 1}. {format_size(size)}  {path}"
ListLine(v, k) ==
    [rank |-> k, size |-> format_size(v[k].size), path |-> v[k].path]

\* the top list built after cutting the vector itself down to top_n
MainTopList_truncate ==
    /\ pc = "top" /\ files # <<>>
    /\ files' = SubSeq(files, 1, DisplayCount(config.top_n, Len(files)))
    /\ top_list' = <<[title |-> <<"Top", Len(files'), "Files">>,
                      lines |-> [k \in 1..Len(files') |-> ListLine(files', k)]]>>
    /\ pc' = "log"
    /\ UNCHANGED <<stats, log, reportFrame>>

\* if !files.is_empty(): the "Top N Files" box over files.iter().take(display_count)
MainTopList ==
    /\ pc = "top" /\ files # <<>>
    /\ LET display_count == DisplayCount(config.top_n, Len(files))
       IN  top_list' = <<[title |-> <<"Top", display_count, "Files">>,
                          lines |-> [k \in 1..display_count |-> ListLine(files, k)]]>>
    /\ pc' = "log"
    /\ UNCHANGED <<files, stats, log, reportFrame>>

\* else: the "No files found matching criteria." box
MainNoFiles ==
    /\ pc = "top" /\ files = <<>>
    /\ top_list' = <<[title |-> <<"Result">>, lines |-> <<>>]>>
    /\ pc' = "log"
    /\ UNCHANGED <<files, stats, log, reportFrame>>

\* write_log returns Ok: the report is in the file
WriteLogOk ==
    /\ pc = "log" /\ config.output # <<>>
    /\ log' = <<[min_size |-> format_size(min_size_bytes),
                 total_files |-> file_count,
                 total_dirs |-> dir_count,
                 files_found |-> Len(files),
                 total_size |-> format_size(SumSizes(files)),
                 gb_files |-> gb_files(files),
                 mb_500_files |-> mb_500_files(files),
                 mb_100_files |-> mb_100_files(files),
                 lines |-> [k \in 1..Len(files) |-> ListLine(files, k)]]>>
    /\ pc' = "done"
    /\ UNCHANGED <<files, stats, top_list, reportFrame>>

\* File::create or a write fails: write_log returns Err, main prints "Failed:"
WriteLogErr ==
    /\ pc = "log" /\ config.output # <<>>
    /\ pc' = "done"
    /\ UNCHANGED <<files, stats, top_list, log, reportFrame>>

MainNoLog ==
    /\ pc = "log" /\ config.output = <<>>
    /\ pc' = "done"
    /\ UNCHANGED <<files, stats, top_list, log, reportFrame>>

ReportNext ==
    \/ MainStatistics \/ MainNoStatistics \/ MainTopList \/ MainNoFiles
    \/ WriteLogOk \/ WriteLogErr \/ MainNoLog

SpecReport == ReportInit /\ [][ReportNext]_vars

(***************************************************************************)
(* Properties of the report.                                               *)
(***************************************************************************)
\* number of listed files of at least n bytes
AtLeast(n) == Cardinality({k \in DOMAIN files : ~U64Lt(files[k].size, U64Of(n))})

\* C7: the buckets [1073741824, inf), [524288000, 1073741824) and
\* [104857600, 524288000) are disjoint and cover exactly the files of at least
\* 104857600 bytes: the first count is the number of files >= 1073741824, the
\* first two add up to the number >= 524288000, all three to the number
\* >= 104857600; main's statistics and write_log's log hold the same counts.
C7_BucketsPartition ==
    /\ stats # <<>> =>
           /\ stats[1].gb_count = AtLeast(1073741824)
           /\ stats[1].gb_count + stats[1].mb_500_count = AtLeast(524288000)
           /\ stats[1].gb_count + stats[1].mb_500_count + stats[1].mb_100_count
                  = AtLeast(104857600)
    /\ log # <<>> =>
           /\ log[1].gb_files = AtLeast(1073741824)
           /\ log[1].gb_files + log[1].mb_500_files = AtLeast(524288000)
           /\ log[1].gb_files + log[1].mb_500_files + log[1].mb_100_files
                  = AtLeast(104857600)
    /\ stats # <<>> /\ log # <<>> =>
           /\ stats[1].gb_count = log[1].gb_files
           /\ stats[1].mb_500_count = log[1].mb_500_files
           /\ stats[1].mb_100_count = log[1].mb_100_files

\* 1 GiB, one byte below 500 MiB and one byte below 100 MiB: the last file is
\* in no bucket
C7_Witness ==
    /\ pc = "done" /\ stats # <<>> /\ log # <<>>
    /\ Len(files) = 3
    /\ files[1].size = U64Of(1073741824)
    /\ files[2].size = U64Of(524287999)
    /\ files[3].size = U64Of(104857599)
    /\ log[1].gb_files = 1 /\ log[1].mb_500_files = 0 /\ log[1].mb_100_files = 1
    /\ stats[1].gb_count = 1 /\ stats[1].mb_500_count = 0 /\ stats[1].mb_100_count = 1

\* the largest n <= len that does not exceed top_n
PrefixLength(top_n, len) ==
    CHOOSE n \in 0..len :
        /\ ~U64Lt(top_n, U64Of(n))
        /\ n < len => U64Lt(top_n, U64Of(n + 1))

\* the sizes added up from the first record on
RECURSIVE TotalFrom(_, _)
TotalFrom(v, k) ==
    IF k > Len(v) THEN U64Zero ELSE U64AddFull(v[k].size, TotalFrom(v, k + 1)).val

IsListing(lines, v, n) ==
    /\ Len(lines) = n
    /\ \A k \in 1..n :
           /\ lines[k].rank = k
           /\ lines[k].path = v[k].path
           /\ lines[k].size = format_size(v[k].size)

\* C8: the top list is the first min(top_n, |files|) records in order,
\* numbered from 1; the list itself is never changed; the total size and the
\* bucket counts are those of the whole list whatever top_n is; the log lists
\* every matched file.
C8_TopListIsPrefix ==
    /\ [](top_list # <<>> =>
              IsListing(top_list[1].lines, files, PrefixLength(config.top_n, Len(files))))
    /\ [](stats # <<>> =>
              /\ stats[1].total_size = format_size(TotalFrom(files, 1))
              /\ stats[1].gb_count + stats[1].mb_500_count + stats[1].mb_100_count
                     = AtLeast(104857600))
    /\ [](log # <<>> =>
              /\ log[1].total_size = format_size(TotalFrom(files, 1))
              /\ log[1].gb_files + log[1].mb_500_files + log[1].mb_100_files
                     = AtLeast(104857600)
              /\ log[1].files_found = Len(files)
              /\ IsListing(log[1].lines, files, Len(files)))
    /\ [][files' = files]_vars

\* -t 2 on three matched files: two lines shown, three logged
C8_Witness ==
    /\ pc = "done" /\ stats # <<>> /\ log # <<>>
    /\ config.top_n = U64Of(2)
    /\ Len(files) = 3
    /\ Len(top_list[1].lines) = 2
    /\ top_list[1].lines[2].path = files[2].path
    /\ Len(log[1].lines) = 3

====
